---- MODULE Spec2Model ----
(***************************************************************************)
(* Model of the bulk price-history fetcher                                 *)
(*   src/data/Charles Schwab/Historical Data/PriceHistoryFast.py           *)
(* RateLimiter, TokenManager + token_refresh_thread, get_price_history /   *)
(* get_price_history_with_retry, fetch_and_process_ticker, ProgressTracker *)
(* and main_parallel.                                                      *)
(*                                                                         *)
(* Four specifications share the variables:                                *)
(*   Spec      the pipeline: main_parallel, the pool's units, the progress *)
(*             ledger and its file, the limiter, process kill and restart  *)
(*   SpecRate  RateLimiter.wait_if_needed under concurrent callers with a  *)
(*             free running clock                                          *)
(*   SpecCred  TokenManager and token_refresh_thread with a clock          *)
(*   SpecAuth  the start of a process: load_tokens, the refresh thread,    *)
(*             get_auth_token_with_retry in the main thread, kill/restart  *)
(* Python's None is 0 for tokens and expiries (both are tested by truth    *)
(* value in the source) and the string "None" elsewhere.                   *)
(***************************************************************************)
EXTENDS Integers, Sequences, FiniteSets, TLC

\* ------------------------------------------------------------ configuration

\* CONFIG['tickers'] (a list without duplicates: list(set(...)))
Tickers == <<"AAA", "BBB", "CCC">>

\* CONFIG['retry_attempts'], scaled down
retry_attempts == 2

\* CONFIG['max_workers'], scaled down: the most workers a run is given
max_workers == 2

\* batch_size of main_parallel, scaled down
batch_size == 2

\* RateLimiter(max_requests, time_window), scaled down
max_requests == 2

time_window == 2

\* last clock value of SpecRate
MaxTime == 5

\* most admissions recorded in SpecRate
MaxAdmits == 6

TickerSet == {Tickers[k] : k \in DOMAIN Tickers}

Threads == TickerSet

\* what the remote answers to one price-history request
\*   data: 200 with candles      empty: 200, empty flag or no candles
\*   other: a status other than 200, 429, 401, 403
\*   r429: 429, or a connection error (both requests ConnectionError)
\*   auth: 401 or 403            timeout: read timeout
\*   malformed: 200 with candles process_data cannot put into a frame
Responses == {"data", "empty", "other", "r429", "auth", "timeout", "malformed"}

VARIABLES
    \* clock, time.time()
    now,
    \* RateLimiter
    request_timestamps, rlLock, sleep_until,
    \* ProgressTracker and its file
    completed_tickers, ptLock, progress_file,
    \* TokenManager
    access_token, refresh_token, access_token_expiry, refresh_token_expiry, tmLock,
    token_file,
    \* token_refresh_thread, and the tokens the authorization server has issued
    rpc, r_since, current_refresh_token, token_data, issued,
    \* main_parallel
    mainPc, remaining_tickers, batch_start, i, pending_futures, results, max_pending,
    \* one unit (future) per ticker: fetch_and_process_ticker
    wpc, attempt, current_access_token, df, buf,
    \* history of the run
    admitted, calls, lastResp, loaded, marked, save_failed,
    \* history of the credential
    first_expiry, refresh_failed, read_expired,
    \* get_auth_token_with_retry in the main thread: its refresh_access_token
    \* locals and its attempt
    m_refresh_token, m_token_data, auth_attempt,
    \* history of the credential: the record of the last finished load or
    \* update, what the last tokens_valid() caller saw, the refresh token the
    \* server has rejected
    installed, snapshot, rejected_token,
    \* max_workers of the run's executors, and the symbols whose output file
    \* cannot be written (to_csv raises for them)
    pool_max_workers, unwritable

rlVars == <<request_timestamps, rlLock, sleep_until>>
ptVars == <<completed_tickers, ptLock, progress_file>>
authVars == <<m_refresh_token, m_token_data, auth_attempt, installed, snapshot, rejected_token>>
credVars == <<token_file, rpc, r_since, current_refresh_token, token_data, issued,
              first_expiry, refresh_failed, read_expired, authVars>>
refreshVars == <<credVars, pool_max_workers, unwritable>>
tmFields == <<access_token, refresh_token, access_token_expiry, refresh_token_expiry, tmLock>>
tmVars == <<access_token, refresh_token, access_token_expiry, refresh_token_expiry, tmLock,
            refreshVars>>
mainVars == <<mainPc, remaining_tickers, batch_start, i, pending_futures, results, max_pending>>
unitVars == <<wpc, attempt, current_access_token, df, buf>>
histVars == <<calls, lastResp, loaded, marked, save_failed>>
vars == <<now, rlVars, ptVars, tmVars, mainVars, unitVars, admitted, histVars>>

\* ------------------------------------------------------------ RateLimiter

\* request_timestamps = [t for t in request_timestamps if current_time - t < time_window]
Prune(ts, current_time) == SelectSeq(ts, LAMBDA t : current_time - t < time_window)

SleepTimeShort(oldest_timestamp, current_time) == (oldest_timestamp + time_window - 1) - current_time

\* sleep_time = (oldest_timestamp + self.time_window) - current_time
SleepTime(oldest_timestamp, current_time) == (oldest_timestamp + time_window) - current_time

\* wait_if_needed, from taking the lock to the decision to sleep
RL_Enter(t) ==
    /\ wpc[t] = "rl_enter"
    /\ rlLock = "free"
    /\ rlLock' = t
    /\ LET pruned == Prune(request_timestamps, now)
       IN  /\ request_timestamps' = pruned
           /\ IF Len(pruned) >= max_requests /\ SleepTime(pruned[1], now) > 0
              THEN /\ wpc' = [wpc EXCEPT ![t] = "rl_sleep"]
                   /\ sleep_until' = [sleep_until EXCEPT ![t] = now + SleepTime(pruned[1], now)]
              ELSE /\ wpc' = [wpc EXCEPT ![t] = "rl_append"]
                   /\ UNCHANGED sleep_until

\* time.sleep(sleep_time) returns, the lock still held
RL_Wake(t) ==
    /\ wpc[t] = "rl_sleep"
    /\ now >= sleep_until[t]
    /\ wpc' = [wpc EXCEPT ![t] = "rl_append"]
    /\ UNCHANGED <<request_timestamps, rlLock, sleep_until>>

LimiterLockKept(t) == t

\* the end of "with self.lock:" in wait_if_needed
LimiterLockReleased(t) == "free"

\* self.request_timestamps.append(time.time()), and the lock is released
RL_Append(t) ==
    /\ wpc[t] = "rl_append"
    /\ rlLock = t
    /\ request_timestamps' = Append(request_timestamps, now)
    /\ rlLock' = LimiterLockReleased(t)
    /\ wpc' = [wpc EXCEPT ![t] = "call"]
    /\ UNCHANGED sleep_until

\* ------------------------------------------------------------ SpecRate

\* the values the other components have before main_parallel runs
IdleRest ==
    /\ completed_tickers = {}
    /\ ptLock = "free"
    /\ progress_file = [kind |-> "missing", list |-> <<>>]
    /\ access_token = 0
    /\ refresh_token = 0
    /\ access_token_expiry = 0
    /\ refresh_token_expiry = 0
    /\ tmLock = "free"
    /\ token_file = [kind |-> "missing", rec |-> <<>>]
    /\ rpc = "idle"
    /\ r_since = 0
    /\ current_refresh_token = 0
    /\ token_data = <<>>
    /\ issued = 0
    /\ first_expiry = 0
    /\ refresh_failed = FALSE
    /\ read_expired = FALSE
    /\ m_refresh_token = 0
    /\ m_token_data = <<>>
    /\ auth_attempt = 0
    /\ installed = <<0, 0, 0, 0>>
    /\ snapshot = 0
    /\ rejected_token = 0
    /\ mainPc = "idle"
    /\ remaining_tickers = <<>>
    /\ batch_start = 0
    /\ i = 0
    /\ pending_futures = {}
    /\ results = {}
    /\ max_pending = 1
    /\ pool_max_workers = max_workers
    /\ unwritable = {}
    /\ attempt = [t \in Threads |-> 0]
    /\ current_access_token = [t \in Threads |-> 0]
    /\ df = [t \in Threads |-> "None"]
    /\ buf = [t \in Threads |-> <<>>]
    /\ calls = [t \in Threads |-> 0]
    /\ lastResp = [t \in Threads |-> "None"]
    /\ loaded = {}
    /\ marked = {}
    /\ save_failed = FALSE

\* RateLimiter.__init__, and every thread about to call wait_if_needed
InitRate ==
    /\ now = 0
    /\ request_timestamps = <<>>
    /\ rlLock = "free"
    /\ sleep_until = [t \in Threads |-> 0]
    /\ wpc = [t \in Threads |-> "rl_enter"]
    /\ admitted = <<>>
    /\ IdleRest

restRate == <<ptVars, tmVars, mainVars, attempt, current_access_token, df, buf, histVars>>

RateEnter(t) == RL_Enter(t) /\ UNCHANGED <<now, admitted, restRate>>

RateWake(t) == RL_Wake(t) /\ UNCHANGED <<now, admitted, restRate>>

\* an admission: the timestamp appended by wait_if_needed is recorded
RateAdmit(t) ==
    /\ RL_Append(t)
    /\ admitted' = Append(admitted, now)
    /\ UNCHANGED <<now, restRate>>

\* the caller sends its request and comes back for the next one
RateCaller(t) ==
    /\ wpc[t] = "call"
    /\ Len(admitted) < MaxAdmits
    /\ wpc' = [wpc EXCEPT ![t] = "rl_enter"]
    /\ UNCHANGED <<now, rlVars, admitted, restRate>>

TickRate ==
    /\ now < MaxTime
    /\ now' = now + 1
    /\ UNCHANGED <<rlVars, wpc, admitted, restRate>>

NextRate ==
    \/ \E t \in Threads : RateEnter(t)
    \/ \E t \in Threads : RateWake(t)
    \/ \E t \in Threads : RateAdmit(t)
    \/ \E t \in Threads : RateCaller(t)
    \/ TickRate

SpecRate == InitRate /\ [][NextRate]_vars

\* the admissions whose timestamp lies in the interval [s, s + time_window)
AdmittedIn(s) == {k \in DOMAIN admitted : admitted[k] >= s /\ admitted[k] < s + time_window}

\* C1: whatever the interleaving of the threads calling wait_if_needed, every
\* interval of length time_window holds at most max_requests admissions
\* (timestamps appended by wait_if_needed).
C1_RateInvariant == \A s \in 0..MaxTime : Cardinality(AdmittedIn(s)) <= max_requests

\* a caller slept for a slot and was admitted after the window was full
C1_Witness ==
    /\ Len(admitted) > max_requests
    /\ \E t \in Threads : wpc[t] = "rl_sleep"

\* ------------------------------------------------------------ ProgressTracker

\* sorted(list(self.completed_tickers)): Tickers is in alphabetical order
SortedList(S) == SelectSeq(Tickers, LAMBDA x : x \in S)

\* set(data.get('completed_tickers', []))
ListToSet(l) == {l[k] : k \in DOMAIN l}

\* the file as open(filename, 'w') leaves it: empty, which json.load rejects
Truncated == [kind |-> "bad", list |-> <<>>]

WrittenWithoutFirst(list) == [kind |-> "ok", list |-> Tail(list)]

\* the file once the dumped list has been flushed and the file closed
Written(list) == [kind |-> "ok", list |-> list]

\* the file a completed save_progress of the set S leaves
Dumped(S) == Written(SortedList(S))

\* load_progress: a missing file or one json.load rejects leaves the set empty
LoadProgress(file) == IF file.kind = "ok" THEN ListToSet(file.list) ELSE {}

\* get_remaining_tickers
GetRemainingTickers(all_tickers_list, completed) ==
    SelectSeq(all_tickers_list, LAMBDA x : x \notin completed)

\* ------------------------------------------------------------ TokenManager (reads)

\* update_tokens: int(time.time()) + 1740
AccessLifetime == 1740

\* tokens_valid
TokensValid ==
    /\ access_token # 0
    /\ access_token_expiry # 0
    /\ access_token_expiry > now
    /\ refresh_token # 0

\* ------------------------------------------------------------ the units

\* the units a pool thread is executing
Running == {t \in Threads : wpc[t] \notin {"idle", "queued", "done"}}

restUnit == <<now, rlVars, ptVars, tmVars, mainVars, admitted>>

\* a pool thread takes the queued future
P_Start(t) ==
    /\ wpc[t] = "queued"
    /\ Cardinality(Running) < pool_max_workers
    /\ wpc' = [wpc EXCEPT ![t] = "check"]
    /\ UNCHANGED <<restUnit, attempt, current_access_token, df, buf, histVars>>

\* fetch_and_process_ticker: if progress_tracker.is_completed(ticker): return None
W_IsCompleted(t) ==
    /\ wpc[t] = "check"
    /\ ptLock = "free"
    /\ wpc' = [wpc EXCEPT ![t] = IF t \in completed_tickers THEN "done" ELSE "token"]
    /\ UNCHANGED <<restUnit, attempt, current_access_token, df, buf, histVars>>

AttemptPcDirect(token) == IF token = 0 THEN "loop" ELSE "call"

\* where the retry loop goes on: a falsy token is read again first
AttemptPc(token) == IF token = 0 THEN "loop" ELSE "rl_enter"

\* access_token = get_access_token(); without one the unit returns None, unmarked
W_GetToken(t) ==
    /\ wpc[t] = "token"
    /\ tmLock = "free"
    /\ current_access_token' = [current_access_token EXCEPT ![t] = access_token]
    /\ attempt' = [attempt EXCEPT ![t] = 0]
    /\ wpc' = [wpc EXCEPT ![t] = IF access_token = 0 THEN "done" ELSE "rl_enter"]
    /\ UNCHANGED <<restUnit, df, buf, histVars>>

MoreAttemptsOffByOne(a) == a <= retry_attempts - 1

\* if attempt < max_retries - 1 (the generic handler sleeps and goes on)
MoreAttempts(a) == a < retry_attempts - 1

\* the generic handler's end: the next attempt, or return None
AfterHandler(t, token) ==
    IF MoreAttempts(attempt[t])
    THEN /\ attempt' = [attempt EXCEPT ![t] = attempt[t] + 1]
         /\ wpc' = [wpc EXCEPT ![t] = AttemptPc(token)]
    ELSE /\ wpc' = [wpc EXCEPT ![t] = "mark"]
         /\ UNCHANGED attempt

\* get_price_history_with_retry, loop top without a token: read it again, and
\* raise "Access token unavailable" into the generic handler if there is none
W_LoopToken(t) ==
    /\ wpc[t] = "loop"
    /\ tmLock = "free"
    /\ current_access_token' = [current_access_token EXCEPT ![t] = access_token]
    /\ IF access_token = 0
       THEN AfterHandler(t, 0)
       ELSE /\ wpc' = [wpc EXCEPT ![t] = "rl_enter"]
            /\ UNCHANGED attempt
    /\ UNCHANGED <<restUnit, df, buf, histVars>>

W_Enter(t) ==
    /\ RL_Enter(t)
    /\ UNCHANGED <<now, ptVars, tmVars, mainVars, admitted, attempt, current_access_token, df, buf, histVars>>

W_Wake(t) ==
    /\ RL_Wake(t)
    /\ UNCHANGED <<now, ptVars, tmVars, mainVars, admitted, attempt, current_access_token, df, buf, histVars>>

W_Admit(t) ==
    /\ RL_Append(t)
    /\ UNCHANGED <<now, ptVars, tmVars, mainVars, admitted, attempt, current_access_token, df, buf, histVars>>

ReturnsNoneOnlyOnError(r) == r = "other"

\* get_price_history returns None: no data in a 200, or another status
ReturnsNone(r) == r \in {"empty", "other"}

UnitRaises == "exc"

\* fetch_and_process_ticker: except Exception: ... return None
UnitOutcomeOnException == "None"

\* get_price_history: one request, and what get_price_history_with_retry and
\* fetch_and_process_ticker do with the answer up to the next shared access
W_Call(t) ==
    /\ wpc[t] = "call"
    /\ \E r \in Responses :
        /\ calls' = [calls EXCEPT ![t] = calls[t] + 1]
        /\ lastResp' = [lastResp EXCEPT ![t] = r]
        /\ CASE r = "data" ->
                  \* return data; process_data builds the frame, which
                  \* save_data writes or fails to write
                  /\ df' = [df EXCEPT ![t] = "df"]
                  /\ wpc' = [wpc EXCEPT ![t] = "mark"]
                  /\ UNCHANGED attempt
             [] r = "malformed" ->
                  \* return data; process_data raises, which the handler
                  \* of fetch_and_process_ticker turns into the outcome
                  /\ df' = [df EXCEPT ![t] = UnitOutcomeOnException]
                  /\ wpc' = [wpc EXCEPT ![t] = "done"]
                  /\ UNCHANGED attempt
             [] ReturnsNone(r) ->
                  \* return None, which the retry loop returns at once
                  /\ wpc' = [wpc EXCEPT ![t] = "mark"]
                  /\ UNCHANGED <<attempt, df>>
             [] r = "r429" ->
                  \* raise ConnectionError
                  /\ wpc' = [wpc EXCEPT ![t] = "excConn"]
                  /\ UNCHANGED <<attempt, df>>
             [] r = "auth" ->
                  \* raise Exception("Auth error ...")
                  /\ wpc' = [wpc EXCEPT ![t] = "excAuth"]
                  /\ UNCHANGED <<attempt, df>>
             [] OTHER ->
                  \* raise Timeout (or any other exception): the generic
                  \* handler, no token read
                  /\ AfterHandler(t, current_access_token[t])
                  /\ UNCHANGED df
    /\ UNCHANGED <<restUnit, current_access_token, buf, loaded, marked, save_failed>>

\* except ConnectionError: sleep, read the token again, next attempt; after the
\* last attempt the loop ends and the function returns None
W_ExcConn(t) ==
    /\ wpc[t] = "excConn"
    /\ tmLock = "free"
    /\ current_access_token' = [current_access_token EXCEPT ![t] = access_token]
    /\ attempt' = [attempt EXCEPT ![t] = attempt[t] + 1]
    /\ wpc' = [wpc EXCEPT ![t] =
                  IF attempt[t] + 1 < retry_attempts THEN AttemptPc(access_token) ELSE "mark"]
    /\ UNCHANGED <<restUnit, df, buf, histVars>>

\* except Exception with "Auth error": read the token again, drop it if
\* tokens_valid() is false, then the generic handler's end
W_ExcAuth(t) ==
    /\ wpc[t] = "excAuth"
    /\ tmLock = "free"
    /\ LET token == IF TokensValid THEN access_token ELSE 0
       IN  /\ current_access_token' = [current_access_token EXCEPT ![t] = token]
           /\ AfterHandler(t, token)
    /\ UNCHANGED <<restUnit, df, buf, histVars>>

MarkCompletedForgets(S, ticker) == S

\* self.completed_tickers.add(ticker)
MarkCompletedAdd(S, ticker) == S \cup {ticker}

ProgressLockIgnored == TRUE

\* with self.lock: of ProgressTracker can be entered
ProgressLockFree == ptLock = "free"

\* mark_completed: take the lock; a new ticker is added and save_progress begins
W_Mark(t) ==
    /\ wpc[t] = "mark"
    /\ ProgressLockFree
    /\ IF t \notin completed_tickers
       THEN /\ completed_tickers' = MarkCompletedAdd(completed_tickers, t)
            /\ ptLock' = t
            /\ wpc' = [wpc EXCEPT ![t] = "save_open"]
            /\ UNCHANGED marked
       ELSE /\ wpc' = [wpc EXCEPT ![t] = "done"]
            /\ marked' = marked \cup {t}
            /\ UNCHANGED <<completed_tickers, ptLock>>
    /\ UNCHANGED <<now, rlVars, progress_file, tmVars, mainVars, admitted, attempt,
                   current_access_token, df, buf, calls, lastResp, loaded, save_failed>>

\* save_progress: open(self.filename, 'w') truncates the file and json.dump
\* puts the sorted list into the file object's buffer; or open raises, the
\* exception is printed and mark_completed returns
W_SaveOpen(t) ==
    /\ wpc[t] = "save_open"
    /\ \E ok \in BOOLEAN :
        IF ok
        THEN /\ progress_file' = Truncated
             /\ buf' = [buf EXCEPT ![t] = SortedList(completed_tickers)]
             /\ wpc' = [wpc EXCEPT ![t] = "save_write"]
             /\ UNCHANGED <<ptLock, marked, save_failed>>
        ELSE /\ ptLock' = "free"
             /\ wpc' = [wpc EXCEPT ![t] = "done"]
             /\ marked' = marked \cup {t}
             /\ save_failed' = TRUE
             /\ UNCHANGED <<progress_file, buf>>
    /\ UNCHANGED <<now, rlVars, completed_tickers, tmVars, mainVars, admitted, attempt,
                   current_access_token, df, calls, lastResp, loaded>>

\* save_progress: leaving the with block flushes the buffer and closes the
\* file, or the write raises part way; then mark_completed returns
W_SaveWrite(t) ==
    /\ wpc[t] = "save_write"
    /\ \E ok \in BOOLEAN :
        /\ progress_file' = IF ok THEN Written(buf[t]) ELSE Truncated
        /\ save_failed' = ~ok
    /\ ptLock' = "free"
    /\ wpc' = [wpc EXCEPT ![t] = "done"]
    /\ marked' = marked \cup {t}
    /\ buf' = [buf EXCEPT ![t] = <<>>]
    /\ UNCHANGED <<now, rlVars, completed_tickers, tmVars, mainVars, admitted, attempt,
                   current_access_token, df, calls, lastResp, loaded>>

\* ------------------------------------------------------------ main_parallel

\* most values of CONFIG['max_pending_tasks'] tried
MaxPending == 2

Min(a, b) == IF a < b THEN a ELSE b

\* batch_end = min(batch_start + batch_size, len(remaining_tickers))
batch_end == Min(batch_start + batch_size, Len(remaining_tickers))

batch_tickers_overlapping ==
    SubSeq(remaining_tickers, IF batch_start = 0 THEN 1 ELSE batch_start, batch_end)

\* batch_tickers = remaining_tickers[batch_start:batch_end]
batch_tickers == SubSeq(remaining_tickers, batch_start + 1, batch_end)

restMain == <<now, rlVars, tmVars, admitted, attempt, current_access_token, df, buf, calls,
              lastResp, marked, save_failed>>

\* initial_access_token = get_auth_token_with_retry(): it returns a token the
\* manager holds as valid (tokens_valid(), a refresh or the full exchange), with
\* between one second and the whole lifetime left, or it raises and
\* main_parallel returns None
M_Auth ==
    /\ mainPc = "start"
    /\ \E ok \in BOOLEAN :
        IF ok
        THEN /\ access_token' = 1
             /\ refresh_token' = 1
             /\ \E left \in {1, AccessLifetime} : access_token_expiry' = now + left
             /\ mainPc' = "load"
        ELSE /\ mainPc' = "failed"
             /\ UNCHANGED <<access_token, refresh_token, access_token_expiry>>
    /\ UNCHANGED <<now, rlVars, ptVars, refresh_token_expiry, tmLock, refreshVars, remaining_tickers,
                   batch_start, i, pending_futures, results, max_pending, unitVars,
                   admitted, histVars>>

\* progress_tracker = ProgressTracker(save_dir); get_remaining_tickers; return {}
\* when nothing remains
M_Load ==
    /\ mainPc = "load"
    /\ ptLock = "free"
    /\ completed_tickers' = LoadProgress(progress_file)
    /\ loaded' = LoadProgress(progress_file)
    /\ remaining_tickers' = GetRemainingTickers(Tickers, LoadProgress(progress_file))
    /\ mainPc' = IF remaining_tickers' = <<>> THEN "done" ELSE "submit"
    /\ batch_start' = 0
    /\ i' = 0
    /\ UNCHANGED <<now, rlVars, ptLock, progress_file, tmVars, pending_futures, results,
                   max_pending, unitVars, admitted, calls, lastResp, marked, save_failed>>

\* the futures of pending_futures that have finished
DoneFuturesNever == {}

DoneFuturesAll == pending_futures

DoneFutures == {t \in pending_futures : wpc[t] = "done"}

BelowOrAtMaxPending == Cardinality(pending_futures) <= max_pending

\* the condition of "while len(pending_futures) >= max_pending" is false
BelowMaxPending == Cardinality(pending_futures) < max_pending

\* while len(pending_futures) >= max_pending: wait(FIRST_COMPLETED) and keep
\* the futures not yet done; the results of the done ones are only inspected
M_Wait ==
    /\ mainPc = "submit"
    /\ i < Len(batch_tickers)
    /\ ~BelowMaxPending
    /\ DoneFutures # {}
    /\ pending_futures' = pending_futures \ DoneFutures
    /\ UNCHANGED <<restMain, ptVars, mainPc, remaining_tickers, batch_start, i, results,
                   max_pending, wpc, loaded>>

\* executor.submit(fetch_and_process_ticker, ticker, CONFIG, progress_tracker)
M_Submit ==
    /\ mainPc = "submit"
    /\ i < Len(batch_tickers)
    /\ BelowMaxPending
    /\ LET ticker == batch_tickers[i + 1]
       IN  /\ wpc' = [wpc EXCEPT ![ticker] = "queued"]
           /\ pending_futures' = pending_futures \cup {ticker}
    /\ i' = i + 1
    /\ mainPc' = IF (i + 1) % 10 = 0 \/ i + 1 = Len(batch_tickers) THEN "report" ELSE "submit"
    /\ UNCHANGED <<restMain, ptVars, remaining_tickers, batch_start, results, max_pending,
                   loaded>>

\* get_completion_percentage for the progress line, under the tracker's lock
M_Report ==
    /\ mainPc = "report"
    /\ ptLock = "free"
    /\ mainPc' = IF i = Len(batch_tickers) THEN "drain" ELSE "submit"
    /\ UNCHANGED <<restMain, ptVars, remaining_tickers, batch_start, i, pending_futures,
                   results, max_pending, wpc, loaded>>

\* for future_item in as_completed(pending_futures): results[ticker_name] = df
M_Drain ==
    /\ mainPc = "drain"
    /\ \E t \in DoneFutures :
        /\ pending_futures' = pending_futures \ {t}
        \* an exception of result() is caught and printed
        /\ results' = IF df[t] \notin {"None", "exc"} THEN results \cup {t} ELSE results
    /\ UNCHANGED <<restMain, ptVars, mainPc, remaining_tickers, batch_start, i,
                   max_pending, wpc, loaded>>

\* the batch is drained and the executor shut down: the next batch after the
\* rest, or the end of the loop
M_BatchEnd ==
    /\ mainPc = "drain"
    /\ pending_futures = {}
    /\ IF batch_end < Len(remaining_tickers)
       THEN /\ batch_start' = batch_start + batch_size
            /\ i' = 0
            /\ mainPc' = "submit"
       ELSE /\ mainPc' = "final"
            /\ UNCHANGED <<batch_start, i>>
    /\ UNCHANGED <<restMain, ptVars, remaining_tickers, pending_futures, results,
                   max_pending, wpc, loaded>>

\* final get_completion_percentage, and return results
M_Final ==
    /\ mainPc = "final"
    /\ ptLock = "free"
    /\ mainPc' = "done"
    /\ UNCHANGED <<restMain, ptVars, remaining_tickers, batch_start, i, pending_futures,
                   results, max_pending, wpc, loaded>>

ExecutorNotJoined == TRUE

\* ThreadPoolExecutor.__exit__: shutdown(wait=True) has joined the pool's
\* threads, which run every future submitted before they end
ExecutorJoined == \A t \in Threads : wpc[t] \in {"idle", "done"}

\* KeyboardInterrupt is raised in the main thread: the with block of the
\* executor, if main_parallel is inside one, is left through __exit__
M_Interrupt ==
    /\ mainPc \in {"start", "load", "submit", "report", "drain", "final"}
    /\ mainPc' = "shutdown"
    /\ UNCHANGED <<restMain, ptVars, remaining_tickers, batch_start, i, pending_futures,
                   results, max_pending, wpc, loaded>>

\* except KeyboardInterrupt: ... return None
M_Interrupted ==
    /\ mainPc = "shutdown"
    /\ ExecutorJoined
    /\ mainPc' = "interrupted"
    /\ UNCHANGED <<restMain, ptVars, remaining_tickers, batch_start, i, pending_futures,
                   results, max_pending, wpc, loaded>>

\* ------------------------------------------------------------ the process

\* the memory of a process that has just started (module level and __init__)
FreshProcess ==
    /\ now = 0
    /\ request_timestamps = <<>>
    /\ rlLock = "free"
    /\ sleep_until = [t \in Threads |-> 0]
    /\ completed_tickers = {}
    /\ ptLock = "free"
    /\ access_token = 0
    /\ refresh_token = 0
    /\ access_token_expiry = 0
    /\ refresh_token_expiry = 0
    /\ tmLock = "free"
    /\ token_file = [kind |-> "missing", rec |-> <<>>]
    /\ rpc = "idle"
    /\ r_since = 0
    /\ current_refresh_token = 0
    /\ token_data = <<>>
    /\ issued = 0
    /\ first_expiry = 0
    /\ refresh_failed = FALSE
    /\ read_expired = FALSE
    /\ m_refresh_token = 0
    /\ m_token_data = <<>>
    /\ auth_attempt = 0
    /\ installed = <<0, 0, 0, 0>>
    /\ snapshot = 0
    /\ rejected_token = 0
    /\ mainPc = "start"
    /\ remaining_tickers = <<>>
    /\ batch_start = 0
    /\ i = 0
    /\ pending_futures = {}
    /\ results = {}
    /\ wpc = [t \in Threads |-> "idle"]
    /\ attempt = [t \in Threads |-> 0]
    /\ current_access_token = [t \in Threads |-> 0]
    /\ df = [t \in Threads |-> "None"]
    /\ buf = [t \in Threads |-> <<>>]
    /\ admitted = <<>>
    /\ calls = [t \in Threads |-> 0]
    /\ lastResp = [t \in Threads |-> "None"]
    /\ loaded = {}
    /\ marked = {}
    /\ save_failed = FALSE

\* a first start: no progress file (nothing completed), or the file an earlier
\* run left with any set of completed tickers
Init ==
    /\ FreshProcess
    /\ max_pending \in 1..MaxPending
    /\ pool_max_workers = max_workers
    /\ unwritable = {}
    /\ progress_file \in {[kind |-> "missing", list |-> <<>>]}
                          \cup {Dumped(S) : S \in (SUBSET TickerSet) \ {{}}}

\* the process ends, by a kill at any point or by returning, and is started
\* again with the same configuration: only the progress file survives
KillRestart ==
    /\ mainPc # "start"
    /\ now' = 0
    /\ request_timestamps' = <<>>
    /\ rlLock' = "free"
    /\ sleep_until' = [t \in Threads |-> 0]
    /\ completed_tickers' = {}
    /\ ptLock' = "free"
    /\ access_token' = 0
    /\ refresh_token' = 0
    /\ access_token_expiry' = 0
    /\ refresh_token_expiry' = 0
    /\ tmLock' = "free"
    /\ token_file' = [kind |-> "missing", rec |-> <<>>]
    /\ rpc' = "idle"
    /\ r_since' = 0
    /\ current_refresh_token' = 0
    /\ token_data' = <<>>
    /\ issued' = 0
    /\ first_expiry' = 0
    /\ refresh_failed' = FALSE
    /\ read_expired' = FALSE
    /\ m_refresh_token' = 0
    /\ m_token_data' = <<>>
    /\ auth_attempt' = 0
    /\ installed' = <<0, 0, 0, 0>>
    /\ snapshot' = 0
    /\ rejected_token' = 0
    /\ mainPc' = "start"
    /\ remaining_tickers' = <<>>
    /\ batch_start' = 0
    /\ i' = 0
    /\ pending_futures' = {}
    /\ results' = {}
    /\ wpc' = [t \in Threads |-> "idle"]
    /\ attempt' = [t \in Threads |-> 0]
    /\ current_access_token' = [t \in Threads |-> 0]
    /\ df' = [t \in Threads |-> "None"]
    /\ buf' = [t \in Threads |-> <<>>]
    /\ admitted' = <<>>
    /\ calls' = [t \in Threads |-> 0]
    /\ lastResp' = [t \in Threads |-> "None"]
    /\ loaded' = {}
    /\ marked' = {}
    /\ save_failed' = FALSE
    /\ UNCHANGED <<progress_file, max_pending, pool_max_workers, unwritable>>

\* the clock goes on while a thread sleeps in wait_if_needed
Tick ==
    /\ \E t \in Threads : wpc[t] = "rl_sleep" /\ now < sleep_until[t]
    /\ now' = now + 1
    /\ UNCHANGED <<rlVars, ptVars, tmVars, mainVars, unitVars, admitted, histVars>>

Next ==
    \/ M_Auth
    \/ M_Load
    \/ M_Wait
    \/ M_Submit
    \/ M_Report
    \/ M_Drain
    \/ M_BatchEnd
    \/ M_Final
    \/ M_Interrupt
    \/ M_Interrupted
    \/ \E t \in Threads : P_Start(t)
    \/ \E t \in Threads : W_IsCompleted(t)
    \/ \E t \in Threads : W_GetToken(t)
    \/ \E t \in Threads : W_LoopToken(t)
    \/ \E t \in Threads : W_Enter(t)
    \/ \E t \in Threads : W_Wake(t)
    \/ \E t \in Threads : W_Admit(t)
    \/ \E t \in Threads : W_Call(t)
    \/ \E t \in Threads : W_ExcConn(t)
    \/ \E t \in Threads : W_ExcAuth(t)
    \/ \E t \in Threads : W_Mark(t)
    \/ \E t \in Threads : W_SaveOpen(t)
    \/ \E t \in Threads : W_SaveWrite(t)
    \/ Tick
    \/ KillRestart

Spec == Init /\ [][Next]_vars

\* ---------------------------------------------------------------------------
\* One uninterrupted run of main_parallel from a first start, in the
\* configurations where a bound binds: max_pending below the batch size, or a
\* pool smaller than the batch. The output file of the first symbol cannot be
\* written, those of the others can. The scheduler is fair: a step that can be
\* taken is taken at some time.
\* ---------------------------------------------------------------------------
InitRun ==
    /\ FreshProcess
    /\ max_pending \in 1..MaxPending
    /\ pool_max_workers \in 1..max_workers
    /\ (max_pending < batch_size) # (pool_max_workers < batch_size)
    /\ unwritable = {Tickers[1]}
    /\ progress_file = [kind |-> "missing", list |-> <<>>]

NextRun ==
    \/ M_Auth
    \/ M_Load
    \/ M_Wait
    \/ M_Submit
    \/ M_Report
    \/ M_Drain
    \/ M_BatchEnd
    \/ M_Final
    \/ \E t \in Threads : P_Start(t)
    \/ \E t \in Threads : W_IsCompleted(t)
    \/ \E t \in Threads : W_GetToken(t)
    \/ \E t \in Threads : W_LoopToken(t)
    \/ \E t \in Threads : W_Enter(t)
    \/ \E t \in Threads : W_Wake(t)
    \/ \E t \in Threads : W_Admit(t)
    \/ \E t \in Threads : W_Call(t)
    \/ \E t \in Threads : W_ExcConn(t)
    \/ \E t \in Threads : W_ExcAuth(t)
    \/ \E t \in Threads : W_Mark(t)
    \/ \E t \in Threads : W_SaveOpen(t)
    \/ \E t \in Threads : W_SaveWrite(t)
    \/ Tick

SpecRun == InitRun /\ [][NextRun]_vars /\ WF_vars(NextRun)

\* ------------------------------------------------------------ the pipeline's properties

\* the unit has left get_price_history_with_retry
Returned(t) == wpc[t] \in {"mark", "save_open", "save_write", "done"}

\* mark_completed has been called and has not returned
InMarkCompleted(t) == wpc[t] \in {"mark", "save_open", "save_write"}

\* save_progress is running
InSaveProgress(t) == wpc[t] \in {"save_open", "save_write"}

\* the answers get_price_history raises on
Raised == {"r429", "auth", "timeout"}

\* C2: a symbol whose request was answered with a non-retryable HTTP error (a
\* status other than 200, 429, 401, 403) is not added to the completed set in
\* that run.
C2_NonRetryableLeftIncomplete ==
    \A t \in Threads : lastResp[t] = "other" => t \notin completed_tickers

\* C3: a symbol whose every attempt failed (the retry loop ended on a timeout,
\* a connection error, a 429 or an auth error) is not added to the completed
\* set.
C3_ExhaustedLeftIncomplete ==
    \A t \in Threads : (Returned(t) /\ lastResp[t] \in Raised) => t \notin completed_tickers

\* every request of the run was answered with data on the first attempt
AllSucceeded == \A t \in Threads : calls[t] > 0 => (calls[t] = 1 /\ lastResp[t] = "data")

\* C4: with the set S loaded at start, no request is made for a symbol of S,
\* and when main_parallel has returned and every request made has succeeded,
\* the completed set holds every configured symbol; for every S.
C4_ResumeIdempotent ==
    /\ \A t \in loaded : calls[t] = 0
    /\ (mainPc = "done" /\ AllSucceeded) => TickerSet \subseteq completed_tickers

\* a run resumed from a set that is neither empty nor full, all requests succeeding
C4_Witness ==
    /\ mainPc = "done"
    /\ loaded # {}
    /\ loaded # TickerSet
    /\ \A t \in TickerSet \ loaded : calls[t] = 1 /\ lastResp[t] = "data"
    /\ TickerSet \subseteq completed_tickers

\* C5: once mark_completed(x) has returned, a new ProgressTracker built on the
\* progress file (after a kill at that point or any later one) has x completed.
\* Stated for the runs in which no save_progress has raised, so the violation
\* found does not rest on an I/O error.
C5_MarkedSurvivesKill ==
    ~save_failed => \A x \in marked : x \in LoadProgress(progress_file)

\* C6: at every point of mark_completed, save_progress included, the progress
\* file is parseable and holds every symbol completed before the call.
C6_FileSurvivesKillInSave ==
    \A t \in Threads : InSaveProgress(t) =>
        /\ progress_file.kind # "bad"
        /\ (~save_failed => marked \subseteq LoadProgress(progress_file))

\* C7: once every mark_completed call made has returned, the in-memory set
\* holds every symbol passed to one of them, and so does the progress file
\* unless the last save_progress raised an I/O error.
C7_NoLostUpdate ==
    (\A t \in Threads : ~InMarkCompleted(t)) =>
        /\ marked \subseteq completed_tickers
        /\ (~save_failed => marked \subseteq LoadProgress(progress_file))

\* the two units of one batch, run by two pool threads, have both returned
\* from mark_completed and the file holds both
C7_Witness ==
    /\ \A t \in Threads : ~InMarkCompleted(t)
    /\ ~save_failed
    /\ max_pending >= 2
    /\ loaded = {}
    /\ {Tickers[1], Tickers[2]} \subseteq marked
    /\ marked \subseteq LoadProgress(progress_file)

\* C8: after a 200 with an empty result the unit makes no other request (it is
\* never back in the retry loop), a first answer of this kind leaves exactly one
\* request made, and the unit ends with the symbol in the completed set.
C8_NoDataTerminal ==
    \A t \in Threads : lastResp[t] = "empty" =>
        /\ Returned(t)
        /\ (attempt[t] = 0 => calls[t] = 1)
        /\ (wpc[t] = "done" => t \in completed_tickers)

\* a unit answered with an empty result at once has finished and is completed
C8_Witness ==
    \E t \in Threads :
        /\ lastResp[t] = "empty"
        /\ calls[t] = 1
        /\ wpc[t] = "done"
        /\ t \in completed_tickers

\* C9: one unit makes at most retry_attempts requests in a run, whatever the
\* remote answers.
C9_AtMostRetryAttempts == \A t \in Threads : calls[t] <= retry_attempts

\* a unit used every attempt, each one failing
C9_Witness ==
    \E t \in Threads :
        /\ calls[t] = retry_attempts
        /\ lastResp[t] \in Raised
        /\ wpc[t] = "done"

\* ------------------------------------------------------------ SpecCred

\* token_refresh_thread: current_time >= access_token_expiry - 300
RefreshMargin == 300

\* token_refresh_thread: time.sleep(25)
PollInterval == 25

\* refresh_access_token: requests.post(..., timeout=30)
HttpTimeout == 30

\* update_tokens: int(time.time()) + (7 * 24 * 60 * 60)
RefreshLifetime == 604800

\* a runnable thread takes its step, and a sleep returns, at most this late
SchedDelay == 1

\* last clock value of SpecCred
MaxCredTime == 320

\* the seconds the exchange request may take: at once, one second, the timeout
ExchangeDurations == {0, 1, HttpTimeout}

\* the worker whose token reads are followed
Reader == Tickers[1]

NeedsRefreshWhenExpired ==
    \/ access_token = 0
    \/ (access_token_expiry # 0 /\ now >= access_token_expiry)

\* token_refresh_thread: the access token is missing, or expired, or expiring
\* within the margin
NeedsRefresh ==
    \/ access_token = 0
    \/ (access_token_expiry # 0 /\ now >= access_token_expiry - RefreshMargin)

\* the credential file after a completed save_tokens
SavedTokens(a, r, ae, re) == [kind |-> "ok", rec |-> <<a, r, ae, re>>]

\* what the pipeline's variables do in SpecCred and SpecAuth
restPipe == <<rlVars, ptVars, remaining_tickers, batch_start, i, pending_futures, results,
              max_pending, wpc, attempt, df, buf, admitted, calls, lastResp, loaded, marked,
              save_failed, pool_max_workers, unwritable>>

mainLocals == <<m_refresh_token, m_token_data, auth_attempt>>

restCred == <<mainPc, mainLocals, snapshot, restPipe>>

\* the four credential fields as a holder of the lock reads them
Fields == <<access_token, refresh_token, access_token_expiry, refresh_token_expiry>>

LockHeldAfterRead(th) == th

\* refresh_access_token: leaving "with self.lock:" after the refresh token was
\* read releases the lock before the request is made
LockAfterRead(th) == "free"

\* token_refresh_thread, loop top: needs_refresh is decided under the lock
R_Check ==
    /\ rpc = "check"
    /\ tmLock = "free"
    /\ rpc' = IF NeedsRefresh THEN "read" ELSE "sleep"
    /\ r_since' = now
    /\ UNCHANGED <<now, tmFields, token_file, current_refresh_token, token_data, issued,
                   first_expiry, refresh_failed, read_expired, installed, rejected_token,
                   current_access_token, restCred>>

\* refresh_access_token: the refresh token is read under the lock; without one
\* the function prints and returns False
R_Read ==
    /\ rpc = "read"
    /\ tmLock = "free"
    /\ current_refresh_token' = refresh_token
    /\ rpc' = IF refresh_token = 0 THEN "sleep" ELSE "exchange"
    /\ tmLock' = IF refresh_token = 0 THEN "free" ELSE LockAfterRead("refresh")
    /\ refresh_failed' = (refresh_failed \/ refresh_token = 0)
    /\ r_since' = now
    /\ UNCHANGED <<now, access_token, refresh_token, access_token_expiry, refresh_token_expiry,
                   token_file, token_data, issued, first_expiry, read_expired, installed,
                   rejected_token, current_access_token, restCred>>

\* the authorization server's answers to a refresh request with the refresh
\* token r: 200 with a new refresh token or without one, a failure of the
\* request (another status, an exception), or the refresh token itself refused
\* as invalid or expired (an auth error), which it then stays
RefreshAnswers(r) ==
    IF r = rejected_token THEN {"failed", "rejected"}
    ELSE {"rotated", "kept", "failed", "rejected"}

\* most tokens the authorization server issues
MaxIssued == 5

\* response.json() of a 200 to a refresh request
RefreshData(answer, r) ==
    [access_token |-> issued + 1,
     refresh_token |-> IF answer = "rotated" THEN issued + 2 ELSE r]

\* refresh_access_token: the answer to requests.post, within the timeout; on
\* every failure the function returns False. One failed request of a run is
\* followed, and any number of refusals
R_Exchange ==
    /\ rpc = "exchange"
    /\ now - r_since \in ExchangeDurations
    /\ \E answer \in RefreshAnswers(current_refresh_token) :
        CASE answer \in {"rotated", "kept"} ->
               /\ issued + 2 <= MaxIssued
               /\ token_data' = RefreshData(answer, current_refresh_token)
               /\ issued' = issued + (IF answer = "rotated" THEN 2 ELSE 1)
               /\ rpc' = "update"
               /\ UNCHANGED <<refresh_failed, rejected_token>>
          [] answer = "failed" ->
               /\ ~refresh_failed
               /\ refresh_failed' = TRUE
               /\ rpc' = "sleep"
               /\ UNCHANGED <<token_data, issued, rejected_token>>
          [] OTHER ->
               /\ refresh_failed' = TRUE
               /\ rejected_token' = current_refresh_token
               /\ rpc' = "sleep"
               /\ UNCHANGED <<token_data, issued>>
    /\ r_since' = now
    /\ UNCHANGED <<now, tmFields, token_file, current_refresh_token, first_expiry,
                   read_expired, installed, current_access_token, restCred>>

\* update_tokens: "with self.lock:" is entered and the two tokens are assigned
UpdateTokens(th, data) ==
    /\ tmLock = "free"
    /\ tmLock' = th
    /\ access_token' = data.access_token
    /\ refresh_token' = data.refresh_token
    /\ UNCHANGED <<access_token_expiry, refresh_token_expiry, token_file, installed>>

\* update_tokens: the two expiries are assigned, and save_tokens opens the
\* credential file with mode 'w', which empties it
UpdateExpiries(th) ==
    /\ tmLock = th
    /\ access_token_expiry' = now + AccessLifetime
    /\ refresh_token_expiry' = now + RefreshLifetime
    /\ token_file' = [kind |-> "bad", rec |-> <<>>]
    /\ UNCHANGED <<access_token, refresh_token, tmLock, installed>>

\* save_tokens: json.dump and close; update_tokens releases the lock
SaveTokens(th) ==
    /\ tmLock = th
    /\ token_file' = SavedTokens(access_token, refresh_token, access_token_expiry,
                                 refresh_token_expiry)
    /\ tmLock' = "free"
    /\ installed' = Fields
    /\ UNCHANGED <<access_token, refresh_token, access_token_expiry, refresh_token_expiry>>

R_Update ==
    /\ rpc = "update"
    /\ UpdateTokens("refresh", token_data)
    /\ rpc' = "expiry"
    /\ r_since' = now
    /\ UNCHANGED <<now, current_refresh_token, token_data, issued, first_expiry, refresh_failed,
                   read_expired, rejected_token, current_access_token, restCred>>

R_Expiry ==
    /\ rpc = "expiry"
    /\ UpdateExpiries("refresh")
    /\ rpc' = "save"
    /\ r_since' = now
    /\ UNCHANGED <<now, current_refresh_token, token_data, issued, first_expiry, refresh_failed,
                   read_expired, rejected_token, current_access_token, restCred>>

\* the refresh thread's update_tokens returns, refresh_access_token returns
\* True and the thread goes to sleep
R_Save ==
    /\ rpc = "save"
    /\ SaveTokens("refresh")
    /\ rpc' = "sleep"
    /\ r_since' = now
    /\ UNCHANGED <<now, current_refresh_token, token_data, issued, first_expiry, refresh_failed,
                   read_expired, rejected_token, current_access_token, restCred>>

\* time.sleep(25) returns
R_Wake ==
    /\ rpc = "sleep"
    /\ now >= r_since + PollInterval
    /\ rpc' = "check"
    /\ r_since' = now
    /\ UNCHANGED <<now, tmFields, token_file, current_refresh_token, token_data, issued,
                   first_expiry, refresh_failed, read_expired, installed, rejected_token,
                   current_access_token, restCred>>

\* a worker calls get_access_token
W_ReadToken ==
    /\ tmLock = "free"
    /\ current_access_token' = [current_access_token EXCEPT ![Reader] = access_token]
    /\ read_expired' = (read_expired \/ (access_token # 0 /\ access_token_expiry <= now))
    /\ UNCHANGED <<now, tmFields, token_file, rpc, r_since, current_refresh_token, token_data,
                   issued, first_expiry, refresh_failed, installed, rejected_token, restCred>>

\* the instant by which the refresh thread has taken its next step
RefreshDeadline ==
    CASE rpc = "sleep" -> r_since + PollInterval + SchedDelay
      [] rpc = "exchange" -> r_since + HttpTimeout
      [] OTHER -> r_since + SchedDelay

TickCred ==
    /\ now < MaxCredTime
    /\ now < RefreshDeadline
    /\ now' = now + 1
    /\ UNCHANGED <<tmVars, current_access_token, restCred>>

\* the expiries the access token loaded at start may have, the clock at 0
InitialExpiries == {20, RefreshMargin, RefreshMargin + 12}

\* TokenManager() has loaded a credential saved by an earlier run and the
\* refresh thread has been started
InitCred ==
    /\ now = 0
    /\ request_timestamps = <<>>
    /\ rlLock = "free"
    /\ sleep_until = [t \in Threads |-> 0]
    /\ wpc = [t \in Threads |-> "idle"]
    /\ admitted = <<>>
    /\ buf = [t \in Threads |-> <<>>]
    /\ completed_tickers = {}
    /\ ptLock = "free"
    /\ progress_file = [kind |-> "missing", list |-> <<>>]
    /\ mainPc = "idle"
    /\ remaining_tickers = <<>>
    /\ batch_start = 0
    /\ i = 0
    /\ pending_futures = {}
    /\ results = {}
    /\ max_pending = 1
    /\ pool_max_workers = max_workers
    /\ unwritable = {}
    /\ attempt = [t \in Threads |-> 0]
    /\ current_access_token = [t \in Threads |-> 0]
    /\ df = [t \in Threads |-> "None"]
    /\ calls = [t \in Threads |-> 0]
    /\ lastResp = [t \in Threads |-> "None"]
    /\ loaded = {}
    /\ marked = {}
    /\ save_failed = FALSE
    /\ access_token = 1
    /\ refresh_token \in {0, 1}
    /\ access_token_expiry \in InitialExpiries
    /\ refresh_token_expiry = RefreshLifetime
    /\ first_expiry = access_token_expiry
    /\ tmLock = "free"
    /\ token_file = SavedTokens(access_token, refresh_token, access_token_expiry,
                                refresh_token_expiry)
    /\ rpc = "check"
    /\ r_since = 0
    /\ current_refresh_token = 0
    /\ token_data = <<>>
    /\ issued = 1
    /\ refresh_failed = FALSE
    /\ read_expired = FALSE
    /\ m_refresh_token = 0
    /\ m_token_data = <<>>
    /\ auth_attempt = 0
    /\ installed = <<access_token, refresh_token, access_token_expiry, refresh_token_expiry>>
    /\ snapshot = 0
    /\ rejected_token = 0

NextCred ==
    \/ R_Check
    \/ R_Read
    \/ R_Exchange
    \/ R_Update
    \/ R_Expiry
    \/ R_Save
    \/ R_Wake
    \/ W_ReadToken
    \/ TickCred

SpecCred == InitCred /\ [][NextCred]_vars

\* the run began at or before first_expiry minus the margin (the clock starts at 0)
SpansMargin == first_expiry - RefreshMargin >= 0

\* C10: for an access token with expiry E and a run that began no later than
\* E - 300, as long as no refresh exchange has failed: no get_access_token of a
\* worker returns a token whose expiry has passed, and from E on the token
\* held is a new one that has not expired.
C10_RenewedBeforeExpiry ==
    (SpansMargin /\ ~refresh_failed) =>
        /\ ~read_expired
        /\ (now >= first_expiry => (access_token # 1 /\ access_token_expiry > now))

\* the run has gone past E: the refresh thread has installed a new token and
\* the worker has read it
C10_Witness ==
    /\ SpansMargin
    /\ ~refresh_failed
    /\ now >= first_expiry
    /\ access_token # 1
    /\ current_access_token[Reader] = access_token
    /\ ~read_expired

\* ------------------------------------------------------------ SpecAuth

\* get_auth_token_with_retry(max_retries=3), scaled down
max_retries == 2

\* last clock value of SpecAuth
MaxAuthTime == 50

LoadTokensPartial(file) ==
    CASE file.kind = "ok" -> file.rec
      [] file.kind = "bad" -> <<1, 0, 0, 0>>
      [] OTHER -> <<0, 0, 0, 0>>

\* load_tokens: the four fields of a file json.load accepts; a missing file
\* or one it rejects leaves the fields of __init__
LoadTokens(file) == IF file.kind = "ok" THEN file.rec ELSE <<0, 0, 0, 0>>

TokenLockIgnored == TRUE

\* "with self.lock:" of TokenManager can be entered
TokenLockFree == tmLock = "free"

restAuth == <<current_refresh_token, token_data, first_expiry, refresh_failed, read_expired,
              rpc, r_since, snapshot, current_access_token, restPipe>>

\* get_auth_token_with_retry: tokens_valid(), and with valid tokens the return
\* of get_access_token()
A_Valid ==
    /\ mainPc = "a_valid"
    /\ TokenLockFree
    /\ mainPc' = IF TokensValid THEN "a_done" ELSE "a_can"
    /\ UNCHANGED <<now, tmFields, token_file, issued, installed, rejected_token, mainLocals,
                   restAuth>>

\* can_try_refresh: the refresh token's existence, checked under the lock
A_CanRefresh ==
    /\ mainPc = "a_can"
    /\ tmLock = "free"
    /\ mainPc' = IF refresh_token # 0 THEN "a_read" ELSE "a_oauth"
    /\ UNCHANGED <<now, tmFields, token_file, issued, installed, rejected_token, mainLocals,
                   restAuth>>

\* refresh_access_token called by the main thread: the refresh token is read
A_Read ==
    /\ mainPc = "a_read"
    /\ tmLock = "free"
    /\ m_refresh_token' = refresh_token
    /\ mainPc' = IF refresh_token = 0 THEN "a_oauth" ELSE "a_exchange"
    /\ tmLock' = IF refresh_token = 0 THEN "free" ELSE LockAfterRead("main")
    /\ UNCHANGED <<now, access_token, refresh_token, access_token_expiry, refresh_token_expiry,
                   token_file, issued, installed, rejected_token, m_token_data, auth_attempt,
                   restAuth>>

\* refresh_access_token called by the main thread: the answer; after a failure
\* get_auth_token_with_retry goes on to the full authorization
A_Exchange ==
    /\ mainPc = "a_exchange"
    /\ \E answer \in RefreshAnswers(m_refresh_token) :
        CASE answer \in {"rotated", "kept"} ->
               /\ issued + 2 <= MaxIssued
               /\ m_token_data' = RefreshData(answer, m_refresh_token)
               /\ issued' = issued + (IF answer = "rotated" THEN 2 ELSE 1)
               /\ mainPc' = "a_update"
               /\ UNCHANGED rejected_token
          [] answer = "failed" ->
               /\ mainPc' = "a_oauth"
               /\ UNCHANGED <<m_token_data, issued, rejected_token>>
          [] OTHER ->
               /\ rejected_token' = m_refresh_token
               /\ mainPc' = "a_oauth"
               /\ UNCHANGED <<m_token_data, issued>>
    /\ UNCHANGED <<now, tmFields, token_file, installed, m_refresh_token, auth_attempt,
                   restAuth>>

\* the full authorization: the user pastes the redirect URL and the code is
\* exchanged; td holds a new access and a new refresh token, or an exception is
\* raised (the input, the request, raise_for_status) and the handler sleeps
\* and tries again, or raises after the last attempt
A_OAuth ==
    /\ mainPc = "a_oauth"
    /\ \E ok \in BOOLEAN :
        IF ok
        THEN /\ issued + 2 <= MaxIssued
             /\ m_token_data' = [access_token |-> issued + 1, refresh_token |-> issued + 2]
             /\ issued' = issued + 2
             /\ mainPc' = "a_update"
             /\ UNCHANGED auth_attempt
        ELSE /\ IF auth_attempt < max_retries - 1
                THEN /\ auth_attempt' = auth_attempt + 1
                     /\ mainPc' = "a_valid"
                ELSE /\ mainPc' = "a_failed"
                     /\ UNCHANGED auth_attempt
             /\ UNCHANGED <<m_token_data, issued>>
    /\ UNCHANGED <<now, tmFields, token_file, installed, rejected_token, m_refresh_token,
                   restAuth>>

A_Update ==
    /\ mainPc = "a_update"
    /\ UpdateTokens("main", m_token_data)
    /\ mainPc' = "a_expiry"
    /\ UNCHANGED <<now, issued, rejected_token, mainLocals, restAuth>>

A_Expiry ==
    /\ mainPc = "a_expiry"
    /\ UpdateExpiries("main")
    /\ mainPc' = "a_save"
    /\ UNCHANGED <<now, issued, rejected_token, mainLocals, restAuth>>

\* the main thread's update_tokens returns and get_auth_token_with_retry
\* returns the access token
A_Save ==
    /\ mainPc = "a_save"
    /\ SaveTokens("main")
    /\ mainPc' = "a_done"
    /\ UNCHANGED <<now, issued, rejected_token, mainLocals, restAuth>>

\* what a reader of the four fields has got: the access token of the record
\* when the fields are those of one finished load or update
Torn == 0 - 1

Observed(fields) == IF fields = installed THEN fields[1] ELSE Torn

\* a worker calls tokens_valid()
W_TokensValid ==
    /\ TokenLockFree
    /\ snapshot' = Observed(Fields)
    /\ UNCHANGED <<now, tmFields, token_file, rpc, r_since, current_refresh_token, token_data,
                   issued, first_expiry, refresh_failed, read_expired, installed,
                   rejected_token, mainPc, mainLocals, current_access_token, restPipe>>

\* the process is killed at any point and started again: TokenManager() loads
\* the credential file, the refresh thread starts and the main thread calls
\* get_auth_token_with_retry; the clock and the authorization server go on
KillRestartAuth ==
    /\ access_token' = LoadTokens(token_file)[1]
    /\ refresh_token' = LoadTokens(token_file)[2]
    /\ access_token_expiry' = LoadTokens(token_file)[3]
    /\ refresh_token_expiry' = LoadTokens(token_file)[4]
    /\ installed' = LoadTokens(token_file)
    /\ first_expiry' = LoadTokens(token_file)[3]
    /\ tmLock' = "free"
    /\ rpc' = "check"
    /\ r_since' = now
    /\ current_refresh_token' = 0
    /\ token_data' = <<>>
    /\ refresh_failed' = FALSE
    /\ read_expired' = FALSE
    /\ mainPc' = "a_valid"
    /\ m_refresh_token' = 0
    /\ m_token_data' = <<>>
    /\ auth_attempt' = 0
    /\ snapshot' = 0
    /\ current_access_token' = [t \in Threads |-> 0]
    /\ UNCHANGED <<now, token_file, issued, rejected_token, restPipe>>

\* SpecAuth's clock goes on by the poll interval while the refresh thread sleeps
TickAuth ==
    /\ rpc = "sleep"
    /\ now + PollInterval <= MaxAuthTime
    /\ now' = now + PollInterval
    /\ UNCHANGED <<tmVars, mainVars, current_access_token, restPipe>>

\* the credential files a start may find: none, one json.load rejects, or
\* the record an earlier run saved, its expiries near or far
InitialFiles ==
    {[kind |-> "missing", rec |-> <<>>], [kind |-> "bad", rec |-> <<>>]}
    \cup {SavedTokens(1, 1, ae, re) : ae \in {5, AccessLifetime}, re \in {3, RefreshLifetime}}

\* the module has been imported: TokenManager() has run load_tokens, the
\* refresh thread is started and main_parallel calls get_auth_token_with_retry
InitAuth ==
    /\ now = 0
    /\ request_timestamps = <<>>
    /\ rlLock = "free"
    /\ sleep_until = [t \in Threads |-> 0]
    /\ wpc = [t \in Threads |-> "idle"]
    /\ admitted = <<>>
    /\ buf = [t \in Threads |-> <<>>]
    /\ completed_tickers = {}
    /\ ptLock = "free"
    /\ progress_file = [kind |-> "missing", list |-> <<>>]
    /\ remaining_tickers = <<>>
    /\ batch_start = 0
    /\ i = 0
    /\ pending_futures = {}
    /\ results = {}
    /\ max_pending = 1
    /\ pool_max_workers = max_workers
    /\ unwritable = {}
    /\ attempt = [t \in Threads |-> 0]
    /\ current_access_token = [t \in Threads |-> 0]
    /\ df = [t \in Threads |-> "None"]
    /\ calls = [t \in Threads |-> 0]
    /\ lastResp = [t \in Threads |-> "None"]
    /\ loaded = {}
    /\ marked = {}
    /\ save_failed = FALSE
    /\ token_file \in InitialFiles
    /\ access_token = LoadTokens(token_file)[1]
    /\ refresh_token = LoadTokens(token_file)[2]
    /\ access_token_expiry = LoadTokens(token_file)[3]
    /\ refresh_token_expiry = LoadTokens(token_file)[4]
    /\ installed = LoadTokens(token_file)
    /\ first_expiry = access_token_expiry
    /\ tmLock = "free"
    /\ rpc = "check"
    /\ r_since = 0
    /\ current_refresh_token = 0
    /\ token_data = <<>>
    /\ issued = 1
    /\ refresh_failed = FALSE
    /\ read_expired = FALSE
    /\ mainPc = "a_valid"
    /\ m_refresh_token = 0
    /\ m_token_data = <<>>
    /\ auth_attempt = 0
    /\ snapshot = 0
    /\ rejected_token = 0

NextAuth ==
    \/ R_Check
    \/ R_Read
    \/ R_Exchange
    \/ R_Update
    \/ R_Expiry
    \/ R_Save
    \/ R_Wake
    \/ A_Valid
    \/ A_CanRefresh
    \/ A_Read
    \/ A_Exchange
    \/ A_OAuth
    \/ A_Update
    \/ A_Expiry
    \/ A_Save
    \/ W_ReadToken
    \/ W_TokensValid
    \/ KillRestartAuth
    \/ TickAuth

SpecAuth == InitAuth /\ [][NextAuth]_vars

\* ------------------------------------------------------------ the credential's properties

\* C11: once the authorization server has refused the refresh token (an auth
\* error of the refresh exchange), or once refresh_token_expiry has passed,
\* the refresh thread makes no further refresh request with that refresh
\* token: it leaves refreshing for re-authorization.
C11_NoFailingRefreshLoop ==
    rpc = "exchange" =>
        /\ current_refresh_token # rejected_token
        /\ r_since < refresh_token_expiry

\* the steps of update_tokens after the lock was taken
InUpdateTokens(pc) == pc \in {"expiry", "save", "a_expiry", "a_save"}

\* C12: get_access_token never waits for a refresh exchange: a thread whose
\* refresh request is in flight does not hold the credential lock, which only
\* a thread inside update_tokens holds, so that a worker's get_access_token
\* gets the lock and the installed access token while the request is out.
C12_ReadNeverWaitsForExchange ==
    /\ rpc = "exchange" => tmLock # "refresh"
    /\ mainPc = "a_exchange" => tmLock # "main"
    /\ tmLock = "refresh" => InUpdateTokens(rpc)
    /\ tmLock = "main" => InUpdateTokens(mainPc)
    /\ (rpc = "exchange" /\ ~InUpdateTokens(mainPc)) => tmLock = "free"

\* the refresh thread's request went out with the refresh token the main
\* thread has replaced since, and the worker has read the access token the
\* main thread installed: it read while the request was in flight
C12_Witness ==
    /\ rpc = "exchange"
    /\ tmLock = "free"
    /\ current_refresh_token # refresh_token
    /\ access_token >= 2
    /\ current_access_token[Reader] = access_token

\* C13: the four credential fields are written only under the lock, so
\* whenever the lock is free they are those of one finished load or update,
\* and no tokens_valid() caller, who reads under the lock, has seen a mix of
\* two updates, whatever the refresh thread, the main thread and the workers do.
C13_SnapshotOfOneUpdate ==
    /\ snapshot # Torn
    /\ tmLock = "free" => Fields = installed

\* a worker has seen the record an update_tokens has installed, and
\* now the main thread is in the middle of its own update_tokens
C13_Witness ==
    /\ snapshot >= 2
    /\ snapshot = installed[1]
    /\ tmLock = "main"
    /\ Fields # installed

\* save_tokens is between open(..., 'w') and the end of the with block
InSaveTokens == rpc = "save" \/ mainPc = "a_save"

\* C14: while save_tokens runs, the instants at which a kill may fall
\* included, the credential file holds a complete record, the previous one or
\* the new one.
C14_CredentialFileNeverPartial == InSaveTokens => token_file.kind = "ok"

Absent == <<0, 0, 0, 0>>

C16_UnitFailureIsolated ==
    /\ \A t \in Threads : lastResp[t] = "malformed" =>
            (wpc[t] = "done" /\ df[t] = "None" /\ t \notin results)
    /\ mainPc = "done" => \A t \in TickerSet \ loaded : wpc[t] = "done"

\* the first unit raised, and the run went on to the last batch, whose unit
\* delivered its frame
C16_Witness ==
    /\ mainPc = "done"
    /\ loaded = {}
    /\ lastResp[Tickers[1]] = "malformed"
    /\ Tickers[Len(Tickers)] \in results

\* the user has interrupted main_parallel
Interrupted == mainPc \in {"shutdown", "interrupted"}

\* C17: after a KeyboardInterrupt no further unit is submitted (a unit not
\* submitted stays so), main_parallel returns only when every submitted unit
\* has resolved, and then every symbol marked complete is in the progress
\* file (unless the last save_progress raised an I/O error).
C17_InterruptDrains ==
    /\ [](mainPc = "interrupted" =>
            /\ \A t \in Threads : wpc[t] \in {"idle", "done"}
            /\ (~save_failed => marked \subseteq LoadProgress(progress_file)))
    /\ [][Interrupted => \A t \in Threads : wpc[t] = "idle" => wpc'[t] = "idle"]_vars

\* the interrupt came in the first batch between its two submissions: the
\* first unit has resolved and is in the file, the second was never submitted
C17_Witness ==
    /\ mainPc = "interrupted"
    /\ loaded = {}
    /\ calls[Tickers[1]] > 0
    /\ Tickers[1] \in marked
    /\ Tickers[1] \in LoadProgress(progress_file)
    /\ wpc[Tickers[2]] = "idle"

\* C18: while the token manager holds no usable access token (tokens_valid()
\* is false: none, or an expired one), main_parallel submits no unit, at the
\* start of the run and in its middle.
C18_NoSubmitWithoutToken ==
    [][~TokensValid => \A t \in Threads : wpc[t] = "idle" => wpc'[t] = "idle"]_vars

\* C19: a unit whose request got an auth error and whose re-read of the token
\* found it still invalid (tokens_valid() false) ends its attempt round: it
\* does not go into another attempt.
C19_AuthFailureEndsRound ==
    \A t \in Threads : ~(lastResp[t] = "auth" /\ wpc[t] = "loop")

\* C20: whether or not its save_progress raised, a mark_completed that was
\* called returns and leaves the symbol in the in-memory set; and after a
\* save_progress that succeeded the file holds the whole in-memory set, the
\* symbols of earlier failed saves included.
C20_SaveFailureTolerated ==
    /\ \A x \in marked : wpc[x] = "done" /\ x \in completed_tickers
    /\ (marked # {} /\ ~save_failed /\ \A t \in Threads : ~InSaveProgress(t)) =>
            LoadProgress(progress_file) = completed_tickers

\* the only save so far, that of x, raised; x is marked in memory and not in
\* the file, the run went on, and the save of y now holds both for the file
C20_Witness ==
    \E x, y \in Threads :
        /\ x # y
        /\ marked = {x}
        /\ save_failed
        /\ x \notin LoadProgress(progress_file)
        /\ wpc[y] = "save_write"
        /\ {x, y} \subseteq ListToSet(buf[y])

\* C21: a unit is submitted only if it has not been submitted before in the
\* run (so no symbol is ever fetched by two units), and when main_parallel
\* returns from its loop every symbol that remained at the start has been
\* submitted, once.
C21_SubmittedExactlyOnce ==
    /\ [][\A t \in Threads : (wpc'[t] = "queued" /\ wpc[t] # "queued") => wpc[t] = "idle"]_vars
    /\ [](mainPc = "done" => \A t \in TickerSet \ loaded : wpc[t] = "done")
    /\ [](\A t \in loaded : wpc[t] = "idle")

\* a run over two batches has returned: one symbol was completed before the
\* run and never submitted, the two others were fetched
C21_Witness ==
    /\ mainPc = "done"
    /\ loaded = {Tickers[2]}
    /\ wpc[Tickers[2]] = "idle"
    /\ \A t \in TickerSet \ loaded : wpc[t] = "done" /\ calls[t] >= 1

\* ------------------------------------------------------------ the limiter's properties

\* C22: request_timestamps never holds more than max_requests entries.
C22_TimestampsBounded == Len(request_timestamps) <= max_requests

\* C23: a unit comes to a price-history request only out of wait_if_needed,
\* by the step that appends its timestamp, and every request uses that
\* admission up: the first attempt and every retry have an admission of
\* their own, made after the attempt before ended.
C23_EveryCallAdmitted ==
    [][\A t \in Threads :
        /\ (wpc'[t] = "call" /\ wpc[t] # "call") =>
                (wpc[t] = "rl_append" /\ request_timestamps' = Append(request_timestamps, now))
        /\ (calls'[t] # calls[t] /\ mainPc' # "start") =>
                (wpc[t] = "call" /\ wpc'[t] # "call")]_vars

\* after an auth error on its first request a unit has been admitted again
\* and is about to send its second
C23_Witness ==
    \E t \in Threads :
        /\ wpc[t] = "call"
        /\ attempt[t] = 1
        /\ calls[t] = 1
        /\ lastResp[t] = "auth"

Executing == {t \in Threads : wpc[t] \notin {"idle", "queued", "done"}}

\* C24: the set of submitted and not yet drained futures never holds more than
\* max_pending entries, a unit is submitted only when the set is below that
\* bound, and at most max_workers units execute at the same time.
C24_PendingAndWorkersBounded ==
    /\ [](Cardinality(pending_futures) <= max_pending)
    /\ [](Cardinality(Executing) <= pool_max_workers)
    /\ [][\A t \in Threads :
            (t \in pending_futures' /\ t \notin pending_futures)
                => Cardinality(pending_futures) < max_pending]_vars

\* both futures of a batch are pending, one executes in the pool of one
\* worker and the other waits in the queue
C24_Witness ==
    /\ pool_max_workers = 1
    /\ Cardinality(pending_futures) = max_pending
    /\ \E t, u \in pending_futures : wpc[t] = "call" /\ wpc[u] = "queued"

\* save_data has written the output file of the unit: the unit has a frame and
\* to_csv did not raise (an exception of to_csv is caught and printed)
SaveDataPersisted(t) == df[t] = "df" /\ t \notin unwritable

\* C26: a symbol whose fetch returned data is in the completed set only if
\* save_data has written its output file.
C26_MarkedOnlyAfterSaved ==
    \A t \in Threads : (df[t] = "df" /\ t \in completed_tickers) => SaveDataPersisted(t)

\* C27: main_parallel terminates: the function returns, and when it has
\* returned every batch is drained and every submitted unit has finished (none
\* is left queued, inside wait_if_needed or anywhere else in its work).
C27_Terminates ==
    <>(/\ mainPc \in {"done", "failed"}
       /\ pending_futures = {}
       /\ \A t \in Threads : wpc[t] \in {"idle", "done"})

\* the function has returned after two batches, a unit having slept in
\* wait_if_needed
C27_Witness ==
    /\ mainPc = "done"
    /\ batch_start > 0
    /\ now > 0
    /\ \A t \in Threads : wpc[t] = "done" /\ calls[t] >= 1

\* C28: batches are strictly sequential: every unit that is submitted and not
\* finished belongs to the current batch, and a unit is submitted only when
\* every unit of the earlier batches has finished.
C28_BatchesSequential ==
    /\ [](\A t \in Threads :
            wpc[t] \notin {"idle", "done"}
                => \E k \in (batch_start + 1)..batch_end : remaining_tickers[k] = t)
    /\ [][\A t \in Threads :
            (wpc'[t] = "queued" /\ wpc[t] # "queued")
                => \A k \in 1..batch_start : wpc[remaining_tickers[k]] = "done"]_vars

\* the unit of the second batch executes, both units of the first are finished
C28_Witness ==
    /\ batch_start = batch_size
    /\ wpc[remaining_tickers[batch_start + 1]] = "call"
    /\ \A k \in 1..batch_start : wpc[remaining_tickers[k]] = "done" /\ calls[remaining_tickers[k]] >= 1

\* C29: the results a normally completing main_parallel returns hold every
\* symbol whose worker returned a frame in this run.
C29_ResultsHoldEveryFrame ==
    mainPc = "done" => \A t \in Threads : (wpc[t] = "done" /\ df[t] = "df") => t \in results

\* ---------------------------------------------------------------------------
\* Concurrent credential updates
\* ---------------------------------------------------------------------------

\* C30: an update after a refresh whose response carried no refresh_token (the
\* token read before the exchange is passed on) never replaces a newer stored
\* refresh token by that older one; the authorization server numbers the
\* tokens in the order it issues them.
C30_NoStaleRefreshTokenWrittenBack ==
    [][/\ (rpc = "update" /\ rpc' = "expiry"
            /\ token_data.refresh_token = current_refresh_token)
                => refresh_token' >= refresh_token
       /\ (mainPc = "a_update" /\ mainPc' = "a_expiry"
            /\ m_token_data.refresh_token = m_refresh_token)
                => refresh_token' >= refresh_token]_vars

====
